---------------------------- MODULE Spec2Model ----------------------------
(***************************************************************************)
(* A model of Vitex (the v1.1.0 source, src/unnamed/part_000): the         *)
(* entrypoint resolver (constructor, _generateEntrypoints, getViteConfig)  *)
(* and the manifest normalizer (_cleanManifest, _saveCleanedManifest,      *)
(* hooked into the bundler by postBuildManifestCleanupPlugin).             *)
(*                                                                         *)
(* Strings are sequences of one-character strings, so that the path and    *)
(* string functions of the code (endsWith, extname, basename, dirname,     *)
(* toLowerCase, replace) are computed character by character.              *)
(***************************************************************************)
EXTENDS Integers, Sequences, FiniteSets, TLC

VARIABLES
    options,            \* the options object handed to the constructor
    pc,                 \* position of the build invocation / of the call under study
    fs,                 \* the file system: directories, files, declaration files
    manifestFile,       \* content of <outputPath>/.vite/manifest.json, or absent
    validSitenames,     \* this.validSitenames
    rootBuildEnabled,   \* this.rootBuildEnabled
    rootBuildIgnoreUnderscore, \* this.rootBuildIgnoreUnderscore
    rootBuildPatterns,  \* this.rootBuildPatterns
    siteHints,          \* this._siteHints : absolute path -> site name
    viteEntrypoints,    \* this.viteEntrypoints
    entryPoints,        \* the entryPoints object built by getViteConfig
    console,            \* what console.warn / console.log have printed, in order
    thrown,             \* the error that propagated out of the running call, if any
    bundle,             \* the bundler's state for the running build
    arg,                \* argument of the pure function under study
    ret                 \* its result

vars == <<options, pc, fs, manifestFile, validSitenames, rootBuildEnabled,
          rootBuildIgnoreUnderscore, rootBuildPatterns, siteHints,
          viteEntrypoints, entryPoints, console, thrown, bundle, arg, ret>>

-----------------------------------------------------------------------------
(* Bounds of the model. *)

\* longest list of configured site names drawn for the naming rule
MaxSites == 2
\* longest import list of a manifest entry
MaxImports == 2
\* number of builds run by one bundler process (vite build --watch rebuilds)
MaxBuilds == 2
\* most files listed in the Styles directory of the root build folder
MaxFilesPerDir == 2
\* most patterns in a package's declaration file
MaxPatterns == 2
\* most entries listed in the Styles directory of the discovery projects
MaxListing == 3

-----------------------------------------------------------------------------
(* Strings. *)

UpperChars == <<"A","B","C","D","E","F","G","H","I","J","K","L","M",
                "N","O","P","Q","R","S","T","U","V","W","X","Y","Z">>
LowerChars == <<"a","b","c","d","e","f","g","h","i","j","k","l","m",
                "n","o","p","q","r","s","t","u","v","w","x","y","z">>

ToLowerChar(c) ==
    IF \E i \in 1..Len(UpperChars) : UpperChars[i] = c
    THEN LowerChars[CHOOSE i \in 1..Len(UpperChars) : UpperChars[i] = c]
    ELSE c

\* String.prototype.toLowerCase
ToLowerCase(s) == [i \in 1..Len(s) |-> ToLowerChar(s[i])]

\* String.prototype.endsWith
EndsWith(s, suf) ==
    /\ Len(suf) <= Len(s)
    /\ SubSeq(s, Len(s) - Len(suf) + 1, Len(s)) = suf

\* String.prototype.startsWith
StartsWith(s, pre) ==
    /\ Len(pre) <= Len(s)
    /\ SubSeq(s, 1, Len(pre)) = pre

\* String.prototype.includes, for a one-character needle
IncludesChar(s, c) == \E i \in 1..Len(s) : s[i] = c

\* String.prototype.lastIndexOf for one character, 1-based; 0 when absent
LastIndexOf(s, c) ==
    IF IncludesChar(s, c)
    THEN CHOOSE i \in 1..Len(s) : s[i] = c /\ \A j \in (i+1)..Len(s) : s[j] # c
    ELSE 0

\* String.prototype.indexOf for one character, 1-based; 0 when absent
IndexOf(s, c) ==
    IF IncludesChar(s, c)
    THEN CHOOSE i \in 1..Len(s) : s[i] = c /\ \A j \in 1..(i-1) : s[j] # c
    ELSE 0

\* decimal digits of a number below 100, as in a template literal `${n}`
Digits == <<"0","1","2","3","4","5","6","7","8","9">>
NumToStr(n) ==
    IF n < 10 THEN <<Digits[n + 1]>>
    ELSE <<Digits[(n \div 10) + 1], Digits[(n % 10) + 1]>>

Range(seq) == {seq[i] : i \in 1..Len(seq)}

-----------------------------------------------------------------------------
(* node:path, POSIX flavour. *)

RECURSIVE StripTrailingSlashes(_)
StripTrailingSlashes(p) ==
    IF Len(p) > 0 /\ p[Len(p)] = "/"
    THEN StripTrailingSlashes(SubSeq(p, 1, Len(p) - 1))
    ELSE p

\* path.basename(p): the last segment, trailing slashes ignored
Basename(p) ==
    LET q == StripTrailingSlashes(p)
        k == LastIndexOf(q, "/")
    IN  SubSeq(q, k + 1, Len(q))

\* path.extname(p): from the last dot of the basename; empty when there is no
\* dot, when the only dot is the basename's first character, or for ".."
Extname(p) ==
    LET b == Basename(p)
        d == LastIndexOf(b, ".")
    IN  IF d = 0 \/ d = 1 \/ b = <<".", ".">> THEN <<>>
        ELSE SubSeq(b, d, Len(b))

\* path.basename(p, ext): the suffix is removed only when the basename ends
\* with it and is longer than it
BasenameExt(p, ext) ==
    LET b == Basename(p)
    IN  IF Len(ext) = 0 \/ Len(ext) > Len(p) THEN b
        ELSE IF ext = p THEN <<>>
        ELSE IF EndsWith(b, ext) /\ Len(b) > Len(ext)
             THEN SubSeq(b, 1, Len(b) - Len(ext))
             ELSE b

\* path.dirname(p)
Dirname(p) ==
    IF Len(p) = 0 THEN <<".">>
    ELSE LET q == StripTrailingSlashes(p)
             k == LastIndexOf(q, "/")
             \* the scan stops above index 0, so a slash at the first
             \* position is the root, never a separator
         IN  IF k <= 1 THEN (IF p[1] = "/" THEN <<"/">> ELSE <<".">>)
             ELSE LET d == StripTrailingSlashes(SubSeq(p, 1, k - 1))
                  IN  IF d = <<>> THEN <<"/", "/">> ELSE SubSeq(p, 1, k - 1)

-----------------------------------------------------------------------------
(* String literals of the source. *)

ExtScss == <<".","s","c","s","s">>
ExtJs == <<".","j","s">>
GlobalPrefix == <<"g","l","o","b","a","l">>
Underscore == <<"_">>
DotSlash == <<".","/">>

-----------------------------------------------------------------------------
(* The Naming Rule. *)

\* this.validSitenames.map(s => s.toLowerCase())
SitesLower == [i \in 1..Len(validSitenames) |-> ToLowerCase(validSitenames[i])]

\* this._siteHints.get(entryPath), tested for truthiness
HasHint(entryPath) ==
    /\ entryPath \in DOMAIN siteHints
    /\ siteHints[entryPath] # <<>>

\* The naming rule of the first release (src/src/Vitex.js): the parent folder is
\* compared case-sensitively, nothing is lower-cased, no site hint is read.
GenerateEntryNameV1(entryPath) ==
    IF ~EndsWith(entryPath, ExtScss) /\ ~EndsWith(entryPath, ExtJs) THEN entryPath
    ELSE LET fileName == BasenameExt(entryPath, Extname(entryPath))
             parentFolder == Basename(Dirname(entryPath))
         IN  IF parentFolder \in Range(validSitenames)
             THEN parentFolder \o Underscore \o fileName
             ELSE GlobalPrefix \o Underscore \o fileName

\* _generateEntryName
GenerateEntryName(entryPath) ==
    IF ~EndsWith(entryPath, ExtScss) /\ ~EndsWith(entryPath, ExtJs) THEN entryPath
    ELSE LET fileName == ToLowerCase(BasenameExt(entryPath, Extname(entryPath)))
             parentFolder == Basename(Dirname(entryPath))
             parentLower == ToLowerCase(parentFolder)
             hits == {i \in 1..Len(validSitenames) : SitesLower[i] = parentLower}
             \* findIndex: the first match, 0 standing for -1
             matchIndex == IF hits = {} THEN 0
                           ELSE CHOOSE i \in hits : \A j \in hits : i <= j
         IN  IF HasHint(entryPath)
             THEN siteHints[entryPath] \o Underscore \o fileName
             ELSE IF matchIndex = 0
                  THEN GlobalPrefix \o Underscore \o fileName
                  ELSE validSitenames[matchIndex] \o Underscore \o fileName

-----------------------------------------------------------------------------
(* The manifest normalizer. A manifest is a function from keys to entries;  *)
(* an entry is a record whose DOMAIN is the set of fields it has.           *)

\* s.replace(/\\/g, "/")
SlashesForward(s) == [i \in 1..Len(s) |-> IF s[i] = "\\" THEN "/" ELSE s[i]]

\* s.replace(/^\.\//, "")
StripLeadingDotSlash(s) ==
    IF StartsWith(s, DotSlash) THEN SubSeq(s, 3, Len(s)) ELSE s

\* a faulty variant of NormalizePath: the backslashes are left alone
NormalizePathNoBackslash(s) == StripLeadingDotSlash(s)

\* .replace(/\\/g, "/").replace(/^\.\//, "")
NormalizePath(s) == StripLeadingDotSlash(SlashesForward(s))

\* a field that is present and truthy (a non-empty string, or any array)
HasSrc(entry) == "src" \in DOMAIN entry /\ entry.src # <<>>
HasImports(entry) == "imports" \in DOMAIN entry

\* newEntry[field] = value
SetField(entry, field, value) ==
    [f \in DOMAIN entry \cup {field} |-> IF f = field THEN value ELSE entry[f]]

\* delete newEntry[field]
DeleteField(entry, field) ==
    [f \in DOMAIN entry \ {field} |-> entry[f]]

\* a faulty variant of FilterSelfImports: an import counts as a self-import when its
\* file name is that of the source key
FilterSelfImportsByBasename(entry) ==
    LET Keep(importPath) ==
            Basename(NormalizePath(importPath)) # Basename(NormalizePath(entry.src))
    IN  SelectSeq(entry.imports, Keep)

\* the imports.filter(...) of _cleanManifest
FilterSelfImports(entry) ==
    LET normalizedSrc == NormalizePath(entry.src)
        Keep(importPath) == NormalizePath(importPath) # normalizedSrc
    IN  SelectSeq(entry.imports, Keep)

\* the self-imports the filter logs, in order
RemovedSelfImports(entry) ==
    IF HasSrc(entry) /\ HasImports(entry)
    THEN LET normalizedSrc == NormalizePath(entry.src)
             Same(importPath) == NormalizePath(importPath) = normalizedSrc
         IN  SelectSeq(entry.imports, Same)
    ELSE <<>>

\* a faulty variant of CleanName: the name of an asset is left in place
CleanNameKeepAssetName(entry) ==
    IF HasSrc(entry) /\ Extname(entry.src) \in {ExtJs, ExtScss}
    THEN SetField(entry, "name", GenerateEntryName(entry.src))
    ELSE entry

\* the second block of _cleanManifest's callback: set or delete the name
CleanName(entry) ==
    IF HasSrc(entry)
    THEN IF Extname(entry.src) \in {ExtJs, ExtScss}
         THEN SetField(entry, "name", GenerateEntryName(entry.src))
         ELSE DeleteField(entry, "name")
    ELSE entry

\* the first block of _cleanManifest's callback: drop the self-imports
CleanImports(entry) ==
    IF HasSrc(entry) /\ HasImports(entry)
    THEN [entry EXCEPT !.imports = FilterSelfImports(entry)]
    ELSE entry

\* the callback of _cleanManifest, for one entry
CleanEntry(entry) == CleanName(CleanImports(entry))

\* _cleanManifest
CleanManifest(manifest) == [key \in DOMAIN manifest |-> CleanEntry(manifest[key])]

\* A faulty variant of the callback's first line: const newEntry = entry, so
\* that what the callback writes is written to the entry of the input.
EntryAfterCleanInPlace(entry) == CleanEntry(entry)

\* an entry of the input once the callback has run on it: the callback starts
\* with const newEntry = {...entry}, assigns a new array to newEntry.imports
\* and sets or deletes newEntry.name; nothing is written to entry
EntryAfterClean(entry) == entry

\* the manifest passed to _cleanManifest, after the call
ManifestAfterClean(manifest) ==
    [key \in DOMAIN manifest |-> EntryAfterClean(manifest[key])]

-----------------------------------------------------------------------------
(* Values the variables have where they play no part. *)

EmptyMap == [x \in {} |-> <<>>]
NoFiles == [dirs |-> EmptyMap, unlistable |-> {}, decl |-> EmptyMap]
NoManifestFile == [present |-> FALSE]
NoBundle == [builds |-> 0, raw |-> EmptyMap, written |-> FALSE]

\* everything but the object's naming state and the call under study
ResolverIdle ==
    /\ options = EmptyMap
    /\ fs = NoFiles
    /\ manifestFile = NoManifestFile
    /\ rootBuildEnabled = TRUE
    /\ rootBuildIgnoreUnderscore = FALSE
    /\ rootBuildPatterns = <<>>
    /\ viteEntrypoints = <<>>
    /\ entryPoints = EmptyMap
    /\ console = <<>>
    /\ thrown = FALSE
    /\ bundle = NoBundle

-----------------------------------------------------------------------------
(* Inputs of the Naming Rule: paths put together from a directory prefix,  *)
(* a file stem and an ending; site lists; a hint table.                    *)

Slash == <<"/">>

\* the words the inputs are put together from: file stems, site names,
\* directory names, endings
Word ==
    [ main |-> <<"m","a","i","n">>,
      Main |-> <<"M","a","i","n">>,
      main_1 |-> <<"m","a","i","n","_","1">>,
      main_2 |-> <<"m","a","i","n","_","2">>,
      a_b |-> <<"a",".","b">>,
      logo |-> <<"l","o","g","o">>,
      App |-> <<"A","p","p">>,
      other |-> <<"o","t","h","e","r">>,
      partial |-> <<"_","b">>,
      mysite |-> <<"m","y","s","i","t","e">>,
      MySite |-> <<"M","y","S","i","t","e">>,
      w |-> <<"w">>,
      a |-> <<"a">>,
      b |-> <<"b">>,
      Resources |-> <<"R","e","s","o","u","r","c","e","s">>,
      Missing |-> <<"M","i","s","s","i","n","g">>,
      Images |-> <<"I","m","a","g","e","s">>,
      assets |-> <<"a","s","s","e","t","s">>,
      old |-> <<"o","l","d">>,
      shared |-> <<"_","s","h","a","r","e","d",".","j","s">>,
      png |-> <<".","p","n","g">>,
      JS |-> <<".","J","S">> ]

Seg_Styles == <<"S","t","y","l","e","s">>

NamePrefixes ==
    { <<>>,
      Slash,
      Slash \o Word.w \o Slash \o Seg_Styles \o Slash,
      Slash \o Word.w \o Slash \o Word.mysite \o Slash,
      Slash \o Word.w \o Slash \o Word.MySite \o Slash,
      Slash \o Word.other \o Slash \o Seg_Styles \o Slash }
NameStems == { <<>>, Word.main, Word.Main, Word.main_1, Word.a_b }
NameEndings == { <<>>, ExtJs, ExtScss, Word.png, Word.JS, ExtJs \o Slash }

NamePaths ==
    { pre \o stem \o ending :
        pre \in NamePrefixes, stem \in NameStems, ending \in NameEndings } \ { <<>> }

SiteCandidates == { Word.mysite, Word.MySite, Word.other }
SiteLists == UNION { [1..n -> SiteCandidates] : n \in 0..MaxSites }

\* the hint tables root-folder discovery can leave for a path: none, or one of
\* the configured sites in its configured casing
HintTablesFor(path, sites) ==
    { EmptyMap } \cup { [p \in {path} |-> s] : s \in Range(sites) }

InitNaming ==
    /\ pc = "call"
    /\ arg \in NamePaths
    /\ validSitenames \in SiteLists
    /\ siteHints \in HintTablesFor(arg, validSitenames)
    /\ ret = <<>>
    /\ ResolverIdle

\* one call of _generateEntryName(arg)
CallGenerateEntryName ==
    /\ pc = "call"
    /\ ret' = GenerateEntryName(arg)
    /\ pc' = "returned"
    /\ UNCHANGED <<options, fs, manifestFile, validSitenames, rootBuildEnabled,
                   rootBuildIgnoreUnderscore, rootBuildPatterns, siteHints,
                   viteEntrypoints, entryPoints, console, thrown, bundle, arg>>

SpecNaming == InitNaming /\ [][CallGenerateEntryName]_vars

-----------------------------------------------------------------------------
(* The Naming Rule as the specification words it, computed on the segments  *)
(* of the path.                                                             *)

RECURSIVE SplitOn(_, _)
\* String.prototype.split for a one-character separator
SplitOn(s, c) ==
    IF ~IncludesChar(s, c) THEN <<s>>
    ELSE LET i == IndexOf(s, c)
         IN  <<SubSeq(s, 1, i - 1)>> \o SplitOn(SubSeq(s, i + 1, Len(s)), c)

RECURSIVE JoinWith(_, _)
JoinWith(parts, c) ==
    IF Len(parts) = 0 THEN <<>>
    ELSE IF Len(parts) = 1 THEN parts[1]
    ELSE parts[1] \o <<c>> \o JoinWith(Tail(parts), c)

\* a file name without its extension; a name that only starts with a dot, or
\* has no dot, has no extension
RefStem(file) ==
    LET parts == SplitOn(file, ".")
    IN  IF Len(parts) = 1 THEN file
        ELSE IF Len(parts) = 2 /\ parts[1] = <<>> THEN file
        ELSE JoinWith(SubSeq(parts, 1, Len(parts) - 1), ".")

\* the extension of a file name: what RefStem leaves out
RefExtension(file) == SubSeq(file, Len(RefStem(file)) + 1, Len(file))

RefEndsIn(path, ending) ==
    /\ Len(path) >= Len(ending)
    /\ \A i \in 1..Len(ending) : path[Len(path) - Len(ending) + i] = ending[i]

RefEntryName(path) ==
    IF ~RefEndsIn(path, ExtScss) /\ ~RefEndsIn(path, ExtJs) THEN path
    ELSE LET segs == SplitOn(path, "/")
             base == ToLowerCase(RefStem(segs[Len(segs)]))
             hinted == path \in DOMAIN siteHints
             sameAsParent == { i \in 1..Len(validSitenames) :
                                /\ Len(segs) >= 2
                                /\ ToLowerCase(validSitenames[i])
                                     = ToLowerCase(segs[Len(segs) - 1]) }
         IN  IF hinted THEN siteHints[path] \o <<"_">> \o base
             ELSE IF sameAsParent # {}
                  THEN validSitenames[CHOOSE i \in sameAsParent :
                                        \A j \in sameAsParent : i <= j]
                         \o <<"_">> \o base
                  ELSE <<"g","l","o","b","a","l","_">> \o base

\* C7: the Naming Rule equals its reference for every path, site list and hint
\* table: a path not ending in .scss or .js comes back unchanged; otherwise the
\* name is <hint>_<basename>, else <site>_<basename> for the first configured
\* site equal, case-insensitively, to the parent directory, else
\* global_<basename>, the basename lower-cased and without extension.
NamingRuleMatchesReference ==
    pc = "returned" => ret = RefEntryName(arg)

\* C7's case: no hint, a parent directory that matches the second configured
\* site only up to case, and a mixed-case file name
NamingRuleSiteBranchReached ==
    /\ pc = "returned"
    /\ arg = Slash \o Word.w \o Slash \o Word.MySite \o Slash \o Word.Main \o ExtScss
    /\ validSitenames = <<Word.other, Word.mysite>>
    /\ siteHints = EmptyMap
    /\ ret = Word.mysite \o Underscore \o Word.main

-----------------------------------------------------------------------------
(* Inputs of the manifest normalizer: a manifest of one entry drawn from    *)
(* source keys, import lists and an optional old name, with or without a    *)
(* second entry that has no source key (a generated chunk).                 *)

Seg_JavaScript == <<"J","a","v","a","S","c","r","i","p","t">>
Backslash == <<"\\">>
File_Out == <<"a","s","s","e","t","s","/","x">>

\* source keys of manifest entries
Src ==
    [ StylesMain |-> Seg_Styles \o Slash \o Word.main \o ExtScss,
      DotStylesMain |-> DotSlash \o Seg_Styles \o Slash \o Word.main \o ExtScss,
      BackStylesMain |-> Seg_Styles \o Backslash \o Word.main \o ExtScss,
      Logo |-> Word.Images \o Slash \o Word.logo \o Word.png,
      SiteApp |-> Seg_JavaScript \o Slash \o Word.mysite \o Slash \o Word.App \o ExtJs,
      DotJs |-> Seg_Styles \o Slash \o ExtJs ]

\* import paths of manifest entries
Imp ==
    [ DotMain |-> DotSlash \o Word.main \o ExtScss,
      DotOther |-> DotSlash \o Word.other \o ExtScss,
      Other |-> Word.other \o ExtScss,
      BackDotStylesMain |-> <<".">> \o Backslash \o Seg_Styles \o Backslash \o Word.main \o ExtScss,
      DotDotStylesMain |-> DotSlash \o DotSlash \o Seg_Styles \o Slash \o Word.main \o ExtScss ]

SrcCandidates ==
    { Src.StylesMain, Src.DotStylesMain, Src.BackStylesMain, Src.Logo,
      Src.SiteApp, Src.DotJs }
ImportCandidates ==
    { Imp.DotMain, Imp.DotOther, Src.StylesMain, Src.DotStylesMain,
      Imp.BackDotStylesMain, Imp.DotDotStylesMain, Src.SiteApp }
ImportLists == UNION { [1..n -> ImportCandidates] : n \in 0..MaxImports }

\* an optional field: absent, or present with one of the values
OptionalField(field, values) ==
    { EmptyMap } \cup { [f \in {field} |-> v] : v \in values }

ManifestEntries ==
    { [file |-> File_Out] @@ s @@ i @@ n @@ x :
        s \in OptionalField("src", SrcCandidates),
        i \in OptionalField("imports", ImportLists),
        n \in OptionalField("name", {Word.old}),
        x \in OptionalField("isEntry", {TRUE}) }

ChunkEntry == [file |-> File_Out, name |-> Word.old, imports |-> <<Src.StylesMain>>]

\* the bundler keys an entry by its source key, a generated chunk by its file
KeyOf(entry) == IF "src" \in DOMAIN entry THEN entry.src ELSE File_Out

Manifests ==
    { [k \in {KeyOf(e)} |-> e] : e \in ManifestEntries }
    \cup { [k \in {KeyOf(e), Word.shared} |-> IF k = Word.shared THEN ChunkEntry ELSE e] :
             e \in ManifestEntries }

RECURSIVE LogLines(_, _)
LogLines(kind, items) ==
    IF items = <<>> THEN <<>>
    ELSE <<[kind |-> kind, about |-> Head(items)]>> \o LogLines(kind, Tail(items))

\* the console.log lines of one _cleanManifest call; the keys are visited in
\* the manifest's own order, which the model does not keep, so the lines of
\* an entry stay together and the entries come in a fixed order
RECURSIVE CleanManifestLog(_, _)
CleanManifestLog(manifest, keys) ==
    IF keys = {} THEN <<>>
    ELSE LET k == CHOOSE x \in keys : \A y \in keys : Len(x) <= Len(y)
         IN  LogLines("removed-self-import",
                      [i \in 1..Len(RemovedSelfImports(manifest[k])) |->
                          NormalizePath(RemovedSelfImports(manifest[k])[i])])
               \o CleanManifestLog(manifest, keys \ {k})

InitClean ==
    /\ pc = "call"
    /\ arg \in Manifests
    /\ validSitenames \in { <<>>, <<Word.mysite>> }
    /\ siteHints = EmptyMap
    /\ ret = EmptyMap
    /\ ResolverIdle

\* one call of _cleanManifest(arg)
CallCleanManifest ==
    /\ pc = "call"
    /\ ret' = CleanManifest(arg)
    /\ arg' = ManifestAfterClean(arg)
    /\ console' = console \o CleanManifestLog(arg, DOMAIN arg)
    /\ pc' = "returned"
    /\ UNCHANGED <<options, fs, manifestFile, validSitenames, rootBuildEnabled,
                   rootBuildIgnoreUnderscore, rootBuildPatterns, siteHints,
                   viteEntrypoints, entryPoints, thrown, bundle>>

SpecClean == InitClean /\ [][CallCleanManifest]_vars

-----------------------------------------------------------------------------
(* Claims about the manifest normalizer. *)

Name_GlobalMain == <<"g","l","o","b","a","l","_","m","a","i","n">>

\* the entry of the specification's round-trip example
IsRoundTripExample(entry) ==
    /\ "src" \in DOMAIN entry /\ entry.src = Src.StylesMain
    /\ "imports" \in DOMAIN entry /\ entry.imports = <<Imp.DotMain, Imp.DotOther>>

\* C3 as the specification states it: the entry Styles/main.scss with imports
\* [./main.scss, ./other.scss] is cleaned to imports [other.scss] and name
\* global_main.
RoundTripExampleAsStated ==
    pc = "returned" =>
        \A k \in DOMAIN arg :
            IsRoundTripExample(arg[k]) =>
                /\ ret[k].imports = <<Imp.Other>>
                /\ "name" \in DOMAIN ret[k] /\ ret[k].name = Name_GlobalMain

\* C3, amended: the entry Styles/main.scss with imports [./main.scss,
\* ./other.scss] keeps both imports as written (./main.scss normalizes to
\* main.scss, which is not the source key Styles/main.scss) and gets the name
\* global_main; with imports [./Styles/main.scss, ./other.scss] the self-import
\* is removed and the survivor is kept as written: [./other.scss].
RoundTripExampleAmended ==
    pc = "returned" =>
        \A k \in DOMAIN arg :
            /\ IsRoundTripExample(arg[k]) =>
                  /\ ret[k].imports = <<Imp.DotMain, Imp.DotOther>>
                  /\ "name" \in DOMAIN ret[k] /\ ret[k].name = Name_GlobalMain
            /\ ( /\ "src" \in DOMAIN arg[k] /\ arg[k].src = Src.StylesMain
                 /\ "imports" \in DOMAIN arg[k]
                 /\ arg[k].imports = <<Src.DotStylesMain, Imp.DotOther>> ) =>
                  /\ ret[k].imports = <<Imp.DotOther>>
                  /\ "name" \in DOMAIN ret[k] /\ ret[k].name = Name_GlobalMain

\* C3's case: the example entry has been cleaned
RoundTripExampleCleaned ==
    /\ pc = "returned"
    /\ \E k \in DOMAIN arg :
          /\ IsRoundTripExample(arg[k])
          /\ "name" \notin DOMAIN arg[k]
          /\ "name" \in DOMAIN ret[k]

\* path normalization as the specification words it: backslashes to forward
\* slashes, then one leading ./ stripped
RefNormalize(s) ==
    LET t == [i \in 1..Len(s) |-> IF s[i] = "\\" THEN "/" ELSE s[i]]
    IN  IF Len(t) >= 2 /\ t[1] = "." /\ t[2] = "/"
        THEN [i \in 1..(Len(t) - 2) |-> t[i + 2]]
        ELSE t

RECURSIVE WithoutSelfReferences(_, _)
\* the imports that are no self-reference of src, in their original order
WithoutSelfReferences(imports, src) ==
    IF imports = <<>> THEN <<>>
    ELSE IF RefNormalize(Head(imports)) = RefNormalize(src)
         THEN WithoutSelfReferences(Tail(imports), src)
         ELSE <<Head(imports)>> \o WithoutSelfReferences(Tail(imports), src)

\* C5: after _cleanManifest, an entry with a source key and an import list has
\* no import equal, after normalization, to its normalized source key, and
\* every import that is no such self-reference is kept, in the original order.
NoSelfImportSurvives ==
    pc = "returned" =>
        \A k \in DOMAIN arg :
            ("src" \in DOMAIN arg[k] /\ "imports" \in DOMAIN arg[k]) =>
                /\ \A i \in 1..Len(ret[k].imports) :
                      RefNormalize(ret[k].imports[i]) # RefNormalize(arg[k].src)
                /\ ret[k].imports = WithoutSelfReferences(arg[k].imports, arg[k].src)

\* C5's case: a self-import written with backslashes was removed and the
\* import after it was kept
SelfImportRemoved ==
    /\ pc = "returned"
    /\ \E k \in DOMAIN arg :
          /\ "src" \in DOMAIN arg[k] /\ arg[k].src = Src.StylesMain
          /\ "imports" \in DOMAIN arg[k]
          /\ arg[k].imports = <<Imp.BackDotStylesMain, Imp.DotOther>>
          /\ ret[k].imports = <<Imp.DotOther>>

\* the extension of a source key: that of its last path segment
RefSrcExtension(src) ==
    LET segs == SplitOn(src, "/") IN RefExtension(segs[Len(segs)])

\* C6: after _cleanManifest, an entry with a source key has a name, equal to
\* the Naming Rule's result for the source key, if and only if the source
\* key's extension is .js or .scss; otherwise it has no name field at all.
NameIffScriptOrStyle ==
    pc = "returned" =>
        \A k \in DOMAIN arg :
            "src" \in DOMAIN arg[k] =>
                LET recognised == RefSrcExtension(arg[k].src) \in {ExtJs, ExtScss}
                IN  /\ ("name" \in DOMAIN ret[k]) <=> recognised
                    /\ recognised => ret[k].name = RefEntryName(arg[k].src)

\* C6's case: Images/logo.png came with a name and left without one
AssetNameRemoved ==
    /\ pc = "returned"
    /\ \E k \in DOMAIN arg :
          /\ "src" \in DOMAIN arg[k] /\ arg[k].src = Src.Logo
          /\ "name" \in DOMAIN arg[k]
          /\ "name" \notin DOMAIN ret[k]

\* C17: a call of _cleanManifest leaves the manifest it was given as it was,
\* and what it returns has the same keys; in every entry the fields other
\* than imports and name are those of the input with their values (file
\* among them), no field but name comes or goes, and an entry without a
\* source key is returned as it is
CleanManifestChangesNothingElse ==
    [][pc = "call" =>
          /\ arg' = arg
          /\ DOMAIN ret' = DOMAIN arg
          /\ \A k \in DOMAIN arg :
                 /\ DOMAIN ret'[k] \ {"name"} = DOMAIN arg[k] \ {"name"}
                 /\ \A f \in DOMAIN arg[k] \ {"imports", "name"} :
                        ret'[k][f] = arg[k][f]
                 /\ "src" \notin DOMAIN arg[k] => ret'[k] = arg[k]]_vars

\* a call returned: a self-import of an entry is gone, its name is new, its
\* file and isEntry fields are there, the generated chunk beside it is as it
\* was, and the input still holds the self-import
CleanedBesideUntouchedChunk ==
    /\ pc = "returned"
    /\ Word.shared \in DOMAIN ret
    /\ ret[Word.shared] = ChunkEntry
    /\ \E k \in DOMAIN ret \ {Word.shared} :
           /\ "isEntry" \in DOMAIN ret[k]
           /\ ret[k].file = File_Out
           /\ "imports" \in DOMAIN arg[k]
           /\ Len(ret[k].imports) < Len(arg[k].imports)
           /\ "name" \in DOMAIN arg[k] /\ arg[k].name = Word.old
           /\ "name" \in DOMAIN ret[k] /\ ret[k].name # Word.old

-----------------------------------------------------------------------------
(* The file system and node:fs. fs.dirs maps each directory to its listing  *)
(* (in readdir order), fs.unlistable holds the directories readdirSync      *)
(* fails on, fs.decl maps each declaration file to its content.             *)

Cwd == Slash \o Word.w

RECURSIVE NormalizeSegments(_, _)
\* the segment walk of path.resolve: "" and "." are dropped, ".." pops
NormalizeSegments(segs, stack) ==
    IF segs = <<>> THEN stack
    ELSE IF Head(segs) = <<>> \/ Head(segs) = <<".">>
         THEN NormalizeSegments(Tail(segs), stack)
    ELSE IF Head(segs) = <<".", ".">>
         THEN NormalizeSegments(Tail(segs),
                                IF stack = <<>> THEN stack
                                ELSE SubSeq(stack, 1, Len(stack) - 1))
    ELSE NormalizeSegments(Tail(segs), Append(stack, Head(segs)))

\* path.resolve(p) of one path, relative paths taken from process.cwd()
Resolve(p) ==
    LET abs == IF StartsWith(p, Slash) THEN p ELSE Cwd \o Slash \o p
    IN  Slash \o JoinWith(NormalizeSegments(SplitOn(abs, "/"), <<>>), "/")

\* path.resolve(base, rel)
Resolve2(base, rel) ==
    IF StartsWith(rel, Slash) THEN Resolve(rel)
    ELSE Resolve(base \o Slash \o rel)

\* whether the resolved path r is a directory or a file listed in its parent
ExistsResolved(r) ==
    \/ r \in DOMAIN fs.dirs
    \/ /\ Dirname(r) \in DOMAIN fs.dirs
       /\ \E i \in 1..Len(fs.dirs[Dirname(r)]) : fs.dirs[Dirname(r)][i].name = Basename(r)

\* fs.existsSync(p)
ExistsSync(p) == ExistsResolved(Resolve(p))

\* whether fs.readdirSync(dir) returns (it throws on a file and on a
\* directory that cannot be listed)
CanReadDir(dir) == dir \in DOMAIN fs.dirs /\ dir \notin fs.unlistable

Warn(kind, about) == [kind |-> kind, about |-> about]

RECURSIVE GlobMatch(_, _)
\* new RegExp("^" + glob.replace(/\./g, "\\.").replace(/\*/g, ".*") + "$").test(name)
GlobMatch(glob, name) ==
    IF glob = <<>> THEN name = <<>>
    ELSE IF Head(glob) = "*"
         THEN \E k \in 0..Len(name) :
                  GlobMatch(Tail(glob), SubSeq(name, k + 1, Len(name)))
         ELSE /\ name # <<>>
              /\ Head(name) = Head(glob)
              /\ GlobMatch(Tail(glob), Tail(name))

\* entries.map(e => resolve(dir, e.name))
ResolveEach(dir, entries) == [i \in 1..Len(entries) |-> Resolve2(dir, entries[i].name)]

\* matched.filter(p => !basename(p).startsWith("_")) when the flag is set
DropPartials(matched, ignoreUnderscore) ==
    LET NotPartial(p) == ~StartsWith(Basename(p), Underscore)
    IN  IF ignoreUnderscore THEN SelectSeq(matched, NotPartial) ELSE matched

\* A faulty variant of the listing filter: the name is tested, the kind of
\* the entry is not, so a directory named like a file is returned too.
MatchedEntries(dir, globPart, ignoreUnderscore) ==
    LET IsMatch(e) == GlobMatch(globPart, e.name)
    IN  DropPartials(ResolveEach(dir, SelectSeq(fs.dirs[dir], IsMatch)), ignoreUnderscore)

\* readdirSync(dir, {withFileTypes}).filter(isFile && regex).map(resolve),
\* then the underscore filter when this.rootBuildIgnoreUnderscore is set
MatchedFiles(dir, globPart, ignoreUnderscore) ==
    LET IsMatch(e) == e.kind = "file" /\ GlobMatch(globPart, e.name)
    IN  DropPartials(ResolveEach(dir, SelectSeq(fs.dirs[dir], IsMatch)), ignoreUnderscore)

\* A faulty variant of the subdirectory listing: the directory itself is
\* searched along with its subdirectories.
SubdirsAndSelf(parentDir) ==
    LET IsDir(e) == e.kind = "dir"
    IN  <<parentDir>> \o ResolveEach(parentDir, SelectSeq(fs.dirs[parentDir], IsDir))

\* readdirSync(parentDir, {withFileTypes}).filter(isDirectory).map(resolve)
SubdirsOf(parentDir) ==
    LET IsDir(e) == e.kind = "dir"
    IN  ResolveEach(parentDir, SelectSeq(fs.dirs[parentDir], IsDir))

RECURSIVE MatchedInSubdirs(_, _, _)
\* the loop over the subdirectories of case B: files.push(...matched)
MatchedInSubdirs(subdirs, globPart, ignoreUnderscore) ==
    IF subdirs = <<>> THEN <<>>
    ELSE MatchedFiles(Head(subdirs), globPart, ignoreUnderscore)
           \o MatchedInSubdirs(Tail(subdirs), globPart, ignoreUnderscore)

\* dirPart.slice(0, dirPart.indexOf("/*")); indexOf gives -1 when "/*" does not
\* occur, and slice(0, -1) drops the last character
SliceToSlashStar(dirPart) ==
    LET at == { i \in 1..(Len(dirPart) - 1) : dirPart[i] = "/" /\ dirPart[i + 1] = "*" }
    IN  IF at = {} THEN SubSeq(dirPart, 1, Len(dirPart) - 1)
        ELSE SubSeq(dirPart, 1, (CHOOSE i \in at : \A j \in at : i <= j) - 1)

\* what a step of the resolver returned and printed, or that it threw
Found(files, warns) == [files |-> files, warns |-> warns, threw |-> FALSE]
Threw == [files |-> <<>>, warns |-> <<>>, threw |-> TRUE]

\* the end of both cases: warn when nothing matched, return the files
WarnIfEmpty(files, relativePath) ==
    Found(files,
             IF Len(files) = 0 THEN <<Warn("no-files-found", relativePath)>> ELSE <<>>)

\* case A of _expandEntryPaths, Dir/*.ext, for the resolved directory
ExpandInDir(absoluteDir, globPart, relativePath, ignoreUnderscore) ==
    IF ~ExistsSync(absoluteDir)
    THEN Found(<<>>, <<Warn("directory-not-found", relativePath)>>)
    ELSE IF ~CanReadDir(absoluteDir) THEN Threw
    ELSE WarnIfEmpty(MatchedFiles(absoluteDir, globPart, ignoreUnderscore), relativePath)

\* the loop of case B and its end, for the subdirectories found
ExpandInSubdirs(subdirs, globPart, relativePath, ignoreUnderscore) ==
    IF \E i \in 1..Len(subdirs) : ~CanReadDir(subdirs[i]) THEN Threw
    ELSE WarnIfEmpty(MatchedInSubdirs(subdirs, globPart, ignoreUnderscore), relativePath)

\* case B of _expandEntryPaths, Dir/*/*.ext, for the resolved parent directory
ExpandBelowDir(parentDir, globPart, relativePath, ignoreUnderscore) ==
    IF ~ExistsSync(parentDir)
    THEN Found(<<>>, <<Warn("directory-not-found", relativePath)>>)
    ELSE IF ~CanReadDir(parentDir) THEN Threw
    ELSE ExpandInSubdirs(SubdirsOf(parentDir), globPart, relativePath, ignoreUnderscore)

\* the two cases of _expandEntryPaths for a pattern with a wildcard
ExpandWildcard(baseDir, dirPart, globPart, relativePath, ignoreUnderscore) ==
    IF ~IncludesChar(dirPart, "*")
    THEN ExpandInDir(Resolve2(baseDir, dirPart), globPart, relativePath, ignoreUnderscore)
    ELSE ExpandBelowDir(Resolve2(baseDir, SliceToSlashStar(dirPart)), globPart,
                        relativePath, ignoreUnderscore)

\* _expandEntryPaths(baseDir, relativePath), with the flag it reads from this
ExpandEntryPaths(baseDir, relativePath, ignoreUnderscore) ==
    IF ~IncludesChar(relativePath, "*")
    THEN Found(<<Resolve2(baseDir, relativePath)>>, <<>>)
    ELSE ExpandWildcard(baseDir, Dirname(relativePath), Basename(relativePath),
                        relativePath, ignoreUnderscore)

-----------------------------------------------------------------------------
(* The constructor and the entrypoint resolver. *)

Seg_packages == <<"p","a","c","k","a","g","e","s">>
Seg_Build == <<"B","u","i","l","d">>
Seg_Frontend == <<"F","r","o","n","t","e","n","d">>
Seg_Configuration == <<"C","o","n","f","i","g","u","r","a","t","i","o","n">>
Seg_ViteEntrypointsJson ==
    <<"V","i","t","e","E","n","t","r","y","p","o","i","n","t","s",".","j","s","o","n">>
Star == <<"*">>

\* options.packagesPath || "packages"
PackagesPath == Seg_packages
\* rb.path ?? "Build/Frontend"
RootBuildPath == Seg_Build \o Slash \o Seg_Frontend
\* the default of this.rootBuildPatterns
DefaultRootBuildPatterns ==
    << Seg_Styles \o Slash \o Star \o ExtScss,
       Seg_JavaScript \o Slash \o Star \o ExtJs,
       Seg_Styles \o Slash \o Star \o Slash \o Star \o ExtScss,
       Seg_JavaScript \o Slash \o Star \o Slash \o Star \o ExtJs >>

\* what two successive steps returned and printed; the second is not run
\* when the first threw
Then(first, rest) ==
    [files |-> first.files \o rest.files,
     warns |-> first.warns \o rest.warns,
     threw |-> rest.threw]

\* resolve(packagesPath, pkg, "Configuration", "ViteEntrypoints.json")
DeclarationFileOf(pkg) ==
    Resolve(PackagesPath \o Slash \o pkg \o Slash \o Seg_Configuration
              \o Slash \o Seg_ViteEntrypointsJson)

\* entries.map(pkg => resolve(...)).filter(fs.existsSync)
DeclarationFilesOf(entries) ==
    SelectSeq([i \in 1..Len(entries) |-> DeclarationFileOf(entries[i].name)], ExistsSync)

\* the first release's _findViteEntrypointsFiles (src/src/Vitex.js): readdirSync
\* without the existence check or the try/catch, so a missing or unlistable
\* packages directory throws
FindViteEntrypointsFilesV1 ==
    IF ~CanReadDir(Resolve(PackagesPath)) THEN Threw
    ELSE Found(DeclarationFilesOf(fs.dirs[Resolve(PackagesPath)]), <<>>)

\* _findViteEntrypointsFiles
FindViteEntrypointsFiles ==
    IF ~ExistsSync(PackagesPath)
    THEN Found(<<>>, <<Warn("packagesPath-not-found", PackagesPath)>>)
    ELSE IF ~CanReadDir(Resolve(PackagesPath))
    THEN Found(<<>>, <<Warn("packagesPath-unreadable", PackagesPath)>>)
    ELSE Found(DeclarationFilesOf(fs.dirs[Resolve(PackagesPath)]), <<>>)

RECURSIVE ExpandAll(_, _, _)
\* the rest of the flatMap once its first pattern is expanded
ExpandAllAfter(first, baseDir, patterns, ignoreUnderscore) ==
    IF first.threw THEN first
    ELSE Then(first, ExpandAll(baseDir, patterns, ignoreUnderscore))

\* patterns.flatMap(p => this._expandEntryPaths(baseDir, p)); an exception
\* ends the walk, the warnings before it have been printed
ExpandAll(baseDir, patterns, ignoreUnderscore) ==
    IF patterns = <<>> THEN Found(<<>>, <<>>)
    ELSE ExpandAllAfter(ExpandEntryPaths(baseDir, Head(patterns), ignoreUnderscore),
                        baseDir, Tail(patterns), ignoreUnderscore)

\* a faulty variant of ExpandDeclaration: a file that is no JSON list is
\* passed over
ExpandDeclarationLenient(file, ignoreUnderscore) ==
    IF ~fs.decl[file].valid THEN Found(<<>>, <<>>)
    ELSE ExpandAll(Dirname(file), fs.decl[file].patterns, ignoreUnderscore)

\* one declaration file: JSON.parse throws on a file that is no JSON, and
\* .flatMap on one that is no array
ExpandDeclaration(file, ignoreUnderscore) ==
    IF ~fs.decl[file].valid THEN Threw
    ELSE ExpandAll(Dirname(file), fs.decl[file].patterns, ignoreUnderscore)

RECURSIVE ExpandDeclarations(_, _)
\* the rest of the flatMap once its first declaration file is expanded
ExpandDeclarationsAfter(first, declFiles, ignoreUnderscore) ==
    IF first.threw THEN first
    ELSE Then(first, ExpandDeclarations(declFiles, ignoreUnderscore))

\* the flatMap over the declaration files of _generatePackageEntrypoints
ExpandDeclarations(declFiles, ignoreUnderscore) ==
    IF declFiles = <<>> THEN Found(<<>>, <<>>)
    ELSE ExpandDeclarationsAfter(ExpandDeclaration(Head(declFiles), ignoreUnderscore),
                                 Tail(declFiles), ignoreUnderscore)

\* the body of _generatePackageEntrypoints once the declaration files are found
PackageEntrypointsOf(found, ignoreUnderscore) ==
    IF found.threw THEN found
    ELSE Then(Found(<<>>, found.warns), ExpandDeclarations(found.files, ignoreUnderscore))

\* _generatePackageEntrypoints
GeneratePackageEntrypoints(ignoreUnderscore) ==
    PackageEntrypointsOf(FindViteEntrypointsFiles, ignoreUnderscore)

\* A faulty variant of the site detection: the last matching site, not the
\* first.
LastSiteAmong(partsLower, sites) ==
    LET hits == { i \in 1..Len(sites) : ToLowerCase(sites[i]) \in partsLower }
    IN  IF hits = {} THEN <<>>
        ELSE sites[CHOOSE i \in hits : \A j \in hits : i >= j]

\* the first configured site that is, in lower case, among the segments
FirstSiteAmong(partsLower, sites) ==
    LET hits == { i \in 1..Len(sites) : ToLowerCase(sites[i]) \in partsLower }
    IN  IF hits = {} THEN <<>>
        ELSE sites[CHOOSE i \in hits : \A j \in hits : i <= j]

\* f.split(path.sep).map(p => p.toLowerCase())
LowerSegments(parts) == { ToLowerCase(parts[i]) : i \in 1..Len(parts) }

\* the site detection of _generateRootEntrypoints for one file: the first
\* configured site that equals, in lower case, some segment of the path;
\* <<>> stands for undefined
DetectSite(f, sites) == FirstSiteAmong(LowerSegments(SplitOn(f, "/")), sites)

\* this._siteHints after the loop over the files found
SiteHintsOf(files, sites) ==
    [f \in { g \in Range(files) : DetectSite(g, sites) # <<>> } |-> DetectSite(f, sites)]

NoRootEntrypoints == [files |-> <<>>, warns |-> <<>>, threw |-> FALSE, hints |-> EmptyMap]

\* the end of _generateRootEntrypoints: record the hints, return the files
WithSiteHints(found, sites) ==
    [files |-> found.files, warns |-> found.warns, threw |-> found.threw,
     hints |-> IF found.threw THEN EmptyMap ELSE SiteHintsOf(found.files, sites)]

\* _generateRootEntrypoints, with the fields of this it reads
GenerateRootEntrypoints(enabled, patterns, ignoreUnderscore, sites) ==
    IF ~enabled THEN NoRootEntrypoints
    ELSE IF ~ExistsSync(Resolve2(Cwd, RootBuildPath)) THEN NoRootEntrypoints
    ELSE WithSiteHints(ExpandAll(Resolve2(Cwd, RootBuildPath), patterns, ignoreUnderscore),
                       sites)

\* [...rootEntries, ...packageEntries] once the root entries are there
EntrypointsAfterRoot(fromRoot, ignoreUnderscore) ==
    IF fromRoot.threw THEN fromRoot
    ELSE Then(fromRoot, GeneratePackageEntrypoints(ignoreUnderscore))
           @@ [hints |-> fromRoot.hints]

\* _generateEntrypoints
GenerateEntrypoints(enabled, patterns, ignoreUnderscore, sites) ==
    EntrypointsAfterRoot(GenerateRootEntrypoints(enabled, patterns, ignoreUnderscore, sites),
                         ignoreUnderscore)

\* options.sitenames || []
SitenamesOf(o) == IF "sitenames" \in DOMAIN o THEN o.sitenames ELSE <<>>
\* options.rootBuild || {}
RootBuildOf(o) == IF "rootBuild" \in DOMAIN o THEN o.rootBuild ELSE EmptyMap
\* rb.enabled ?? true
EnabledOf(rb) == IF "enabled" \in DOMAIN rb THEN rb.enabled ELSE TRUE
\* Array.isArray(rb.patterns) && rb.patterns.length > 0 ? rb.patterns : defaults
PatternsOf(rb) ==
    IF "patterns" \in DOMAIN rb /\ Len(rb.patterns) > 0
    THEN rb.patterns ELSE DefaultRootBuildPatterns
\* rb.ignoreUnderscore === true
IgnoreUnderscoreOf(rb) == "ignoreUnderscore" \in DOMAIN rb /\ rb.ignoreUnderscore = TRUE

\* the last statement of the constructor: keep what _generateEntrypoints
\* returned, or leave with its exception
KeepEntrypoints(found) ==
    /\ siteHints' = found.hints
    /\ console' = console \o found.warns
    /\ thrown' = found.threw
    /\ viteEntrypoints' = IF found.threw THEN <<>> ELSE found.files
    /\ pc' = IF found.threw THEN "failed" ELSE "constructed"

\* new Vitex(options): the option defaults, then _generateEntrypoints
Construct ==
    /\ pc = "new"
    /\ validSitenames' = SitenamesOf(options)
    /\ rootBuildEnabled' = EnabledOf(RootBuildOf(options))
    /\ rootBuildPatterns' = PatternsOf(RootBuildOf(options))
    /\ rootBuildIgnoreUnderscore' = IgnoreUnderscoreOf(RootBuildOf(options))
    /\ KeepEntrypoints(GenerateEntrypoints(EnabledOf(RootBuildOf(options)),
                                           PatternsOf(RootBuildOf(options)),
                                           IgnoreUnderscoreOf(RootBuildOf(options)),
                                           SitenamesOf(options)))
    /\ UNCHANGED <<options, fs, manifestFile, entryPoints, bundle, arg, ret>>

\* the body of the forEach callback once the entry name is computed
RegisterNamed(acc, entryName, entryPath) ==
    IF entryName \notin DOMAIN acc.map
    THEN [map |-> SetField(acc.map, entryName, Resolve(entryPath)),
          warns |-> acc.warns]
    ELSE [map |-> SetField(acc.map,
                           entryName \o Underscore
                             \o NumToStr(Cardinality(DOMAIN acc.map)),
                           Resolve(entryPath)),
          warns |-> Append(acc.warns, Warn("duplicate-entry-name", entryName))]

\* one turn of the forEach of getViteConfig: register entryPath in the map
RegisterEntry(acc, entryPath) ==
    RegisterNamed(acc, GenerateEntryName(entryPath), entryPath)

RECURSIVE BuildEntryPoints(_, _)
\* this.viteEntrypoints.forEach(...) of getViteConfig
BuildEntryPoints(paths, acc) ==
    IF paths = <<>> THEN acc
    ELSE BuildEntryPoints(Tail(paths), RegisterEntry(acc, Head(paths)))

\* the end of getViteConfig: the map becomes rollupOptions.input
KeepEntryPoints(built) ==
    /\ entryPoints' = built.map
    /\ console' = console \o built.warns

\* getViteConfig(): build the entryPoints object handed to the bundler as
\* rollupOptions.input
GetViteConfig ==
    /\ pc = "constructed"
    /\ KeepEntryPoints(BuildEntryPoints(viteEntrypoints, [map |-> EmptyMap, warns |-> <<>>]))
    /\ pc' = "configured"
    /\ UNCHANGED <<options, fs, manifestFile, validSitenames, rootBuildEnabled,
                   rootBuildIgnoreUnderscore, rootBuildPatterns, siteHints,
                   viteEntrypoints, thrown, bundle, arg, ret>>

-----------------------------------------------------------------------------
(* The projects the resolver is run on: a working directory /w with an      *)
(* optional root build folder Build/Frontend (a Styles directory with some  *)
(* files and an optional site folder, an optional JavaScript directory) and *)
(* a packages directory that is absent, unlistable, or holds one package    *)
(* with or without a declaration file.                                      *)

DotDot == <<".", ".">>

File(name) == [name |-> name, kind |-> "file"]
Dir(name) == [name |-> name, kind |-> "dir"]

\* the directories and files of a project, each by its absolute path
Place ==
    LET rootBuild == Cwd \o Slash \o RootBuildPath
        styles == rootBuild \o Slash \o Seg_Styles
        packages == Cwd \o Slash \o Seg_packages
        package == packages \o Slash \o Word.a
        configuration == package \o Slash \o Seg_Configuration
    IN  [ rootBuild |-> rootBuild,
          styles |-> styles,
          siteStyles |-> styles \o Slash \o Word.MySite,
          javaScript |-> rootBuild \o Slash \o Seg_JavaScript,
          packages |-> packages,
          package |-> package,
          configuration |-> configuration,
          resources |-> package \o Slash \o Word.Resources,
          declaration |-> configuration \o Slash \o Seg_ViteEntrypointsJson,
          oldStyles |-> styles \o Slash \o Word.MySite \o Slash \o Word.old,
          namedLikeFile |-> styles \o Slash \o Word.main \o ExtScss,
          otherPackage |-> packages \o Slash \o Word.b,
          otherConfiguration |-> packages \o Slash \o Word.b \o Slash \o Seg_Configuration,
          otherDeclaration |-> packages \o Slash \o Word.b \o Slash \o Seg_Configuration
                                \o Slash \o Seg_ViteEntrypointsJson ]

StylesFileNames == { Word.main \o ExtScss, Word.main_2 \o ExtScss, Word.partial \o ExtScss }
\* the listings of Styles: up to MaxFilesPerDir different files, in any order
StylesListings ==
    { l \in UNION { [1..n -> StylesFileNames] : n \in 0..MaxFilesPerDir } :
        \A i, j \in 1..Len(l) : i # j => l[i] # l[j] }

PatternCandidates ==
    { DotDot \o Slash \o Word.Resources \o Slash \o Star \o ExtJs,
      DotDot \o Slash \o Word.Resources \o Slash \o Word.main \o ExtJs,
      DotDot \o Slash \o Word.Missing \o Slash \o Star \o ExtScss }
\* what a declaration file can hold: a list of patterns, or no JSON at all
Declarations ==
    { [valid |-> TRUE, patterns |-> l] :
        l \in UNION { [1..n -> PatternCandidates] : n \in 0..MaxPatterns } }
    \cup { [valid |-> FALSE, patterns |-> <<>>] }

\* the directories of the root build folder
RootBuildDirs(stylesFiles, withSiteDir, withJavaScript) ==
    (Cwd \o Slash \o Seg_Build :> <<Dir(Seg_Frontend)>>)
    @@ (Place.rootBuild :> <<Dir(Seg_Styles)>>
                      \o (IF withJavaScript THEN <<Dir(Seg_JavaScript)>> ELSE <<>>))
    @@ (Place.styles :> [i \in 1..Len(stylesFiles) |-> File(stylesFiles[i])]
                       \o (IF withSiteDir THEN <<Dir(Word.MySite)>> ELSE <<>>))
    @@ (IF withSiteDir THEN (Place.siteStyles :> <<File(Word.main \o ExtScss)>>) ELSE EmptyMap)
    @@ (IF withJavaScript THEN (Place.javaScript :> <<File(Word.main \o ExtJs)>>) ELSE EmptyMap)

\* the directories of the packages folder and of its one package
PackagesDirs(withDeclaration) ==
    (Place.packages :> <<Dir(Word.a)>>)
    @@ (Place.package :> (IF withDeclaration THEN <<Dir(Seg_Configuration)>> ELSE <<>>)
                        \o <<Dir(Word.Resources)>>)
    @@ (IF withDeclaration
        THEN (Place.configuration :> <<File(Seg_ViteEntrypointsJson)>>) ELSE EmptyMap)
    @@ (Place.resources :> <<File(Word.main \o ExtJs)>>)

\* the packages folder with a second package b beside a, each with its
\* declaration file; b has no Resources directory
TwoPackagesDirs ==
    (Place.packages :> <<Dir(Word.a), Dir(Word.b)>>)
    @@ (Place.otherPackage :> <<Dir(Seg_Configuration)>>)
    @@ (Place.otherConfiguration :> <<File(Seg_ViteEntrypointsJson)>>)
    @@ PackagesDirs(TRUE)

\* the declarations of the two packages: of a and of b, one of them possibly
\* no JSON
TwoDeclarations ==
    LET good == [valid |-> TRUE,
                 patterns |-> <<DotDot \o Slash \o Word.Resources \o Slash \o Star \o ExtJs>>]
        bad == [valid |-> FALSE, patterns |-> <<>>]
    IN  { <<good, bad>>, <<bad, good>>, <<good, good>> }

RootBuildTrees ==
    { EmptyMap }
    \cup { RootBuildDirs(l, s, j) :
             l \in StylesListings, s \in BOOLEAN, j \in BOOLEAN }

\* the packages part of a file system: absent, unlistable, one package, or two
PackagesTrees ==
    { [dirs |-> EmptyMap, unlistable |-> {}, decl |-> EmptyMap],
      [dirs |-> PackagesDirs(FALSE), unlistable |-> {Place.packages}, decl |-> EmptyMap],
      [dirs |-> PackagesDirs(FALSE), unlistable |-> {}, decl |-> EmptyMap] }
    \cup { [dirs |-> PackagesDirs(TRUE), unlistable |-> {},
            decl |-> (Place.declaration :> d)] : d \in Declarations }
    \cup { [dirs |-> TwoPackagesDirs, unlistable |-> {},
            decl |-> (Place.declaration :> d[1]) @@ (Place.otherDeclaration :> d[2])] :
             d \in TwoDeclarations }

CwdListing(dirs) ==
    (IF Place.rootBuild \in DOMAIN dirs THEN <<Dir(Seg_Build)>> ELSE <<>>)
    \o (IF Place.packages \in DOMAIN dirs THEN <<Dir(Seg_packages)>> ELSE <<>>)

FileSystems ==
    { [dirs |-> (Cwd :> CwdListing(r @@ p.dirs)) @@ r @@ p.dirs,
       unlistable |-> p.unlistable,
       decl |-> p.decl] :
        r \in RootBuildTrees, p \in PackagesTrees }

\* the rootBuild option objects tried
RootBuildOptions ==
    { EmptyMap,
      [enabled |-> FALSE],
      [enabled |-> TRUE],
      [ignoreUnderscore |-> TRUE],
      [enabled |-> FALSE, ignoreUnderscore |-> TRUE] }

OptionObjects ==
    { s @@ r :
        s \in OptionalField("sitenames", { <<Word.mysite>> }),
        r \in OptionalField("rootBuild", RootBuildOptions) }

\* the object before its constructor has run
Unconstructed ==
    /\ validSitenames = <<>>
    /\ rootBuildEnabled = FALSE
    /\ rootBuildIgnoreUnderscore = FALSE
    /\ rootBuildPatterns = <<>>
    /\ siteHints = EmptyMap
    /\ viteEntrypoints = <<>>
    /\ entryPoints = EmptyMap
    /\ console = <<>>
    /\ thrown = FALSE
    /\ bundle = NoBundle
    /\ arg = <<>>
    /\ ret = <<>>

InitResolver ==
    /\ pc = "new"
    /\ options \in OptionObjects
    /\ fs \in FileSystems
    /\ manifestFile = NoManifestFile
    /\ Unconstructed

NextResolver == Construct \/ GetViteConfig

SpecResolver == InitResolver /\ [][NextResolver]_vars

-----------------------------------------------------------------------------
(* Claims about the entrypoint map. *)

\* the resolved list holds no path twice
DistinctPaths ==
    \A i, j \in 1..Len(viteEntrypoints) : i # j => viteEntrypoints[i] # viteEntrypoints[j]

\* the keys of the map that point at path p
KeysOf(p) == { k \in DOMAIN entryPoints : entryPoints[k] = p }

\* C1: for a resolved list of distinct paths, the map getViteConfig builds has
\* exactly one key per path and every path is the value of some key, files whose
\* base name already ends in _<number> included
EntryMapKeepsEveryPath ==
    (pc = "configured" /\ DistinctPaths) =>
        /\ Cardinality(DOMAIN entryPoints) = Len(viteEntrypoints)
        /\ \A i \in 1..Len(viteEntrypoints) : KeysOf(viteEntrypoints[i]) # {}

\* C8: a path that occurs more than once in the resolved list ends with a
\* single key, and no collision is reported for a name all of whose files are
\* one and the same path
ReRegistrationIsIdempotent ==
    pc = "configured" =>
        /\ \A i \in 1..Len(viteEntrypoints) :
               Cardinality(KeysOf(viteEntrypoints[i])) <= 1
        /\ \A w \in Range(console) :
               w.kind = "duplicate-entry-name" =>
                   \E i, j \in 1..Len(viteEntrypoints) :
                       /\ viteEntrypoints[i] # viteEntrypoints[j]
                       /\ GenerateEntryName(viteEntrypoints[i]) = w.about
                       /\ GenerateEntryName(viteEntrypoints[j]) = w.about

-----------------------------------------------------------------------------
(* Claims about the resolver's handling of what is missing. *)

IsUnder(p, dir) == StartsWith(p, dir \o Slash)
Warned(kind, about) == Warn(kind, about) \in Range(console)

\* the declaration files that exist, are reached and parse
ReadDeclarations ==
    IF CanReadDir(Place.packages) THEN { f \in DOMAIN fs.decl : fs.decl[f].valid } ELSE {}

\* the patterns the resolver expands, each with the directory it starts from
ActivePatterns ==
    { <<Place.rootBuild, rootBuildPatterns[i]>> :
        i \in { j \in 1..Len(rootBuildPatterns) :
                  rootBuildEnabled /\ Place.rootBuild \in DOMAIN fs.dirs } }
    \cup UNION { { <<Dirname(f), fs.decl[f].patterns[i]>> :
                     i \in 1..Len(fs.decl[f].patterns) } : f \in ReadDeclarations }

\* the directory a wildcard pattern looks into (or below, for Dir/*/*.ext)
PatternDirectory(baseDir, pattern) ==
    Resolve2(baseDir, SubSeq(pattern, 1, IndexOf(pattern, "*") - 2))

\* the ending a file must have to match the pattern's *.ext
PatternEnding(pattern) == SubSeq(pattern, LastIndexOf(pattern, "*") + 1, Len(pattern))

\* how many directories below PatternDirectory the matches lie: 0 or 1
PatternDepth(pattern) == IF IndexOf(pattern, "*") = LastIndexOf(pattern, "*") THEN 0 ELSE 1

\* the entrypoints the pattern can have contributed
ContributionOf(baseDir, pattern) ==
    { p \in Range(viteEntrypoints) :
        /\ EndsWith(p, PatternEnding(pattern))
        /\ (IF PatternDepth(pattern) = 0 THEN Dirname(p) ELSE Dirname(Dirname(p)))
             = PatternDirectory(baseDir, pattern) }

\* no declaration file is malformed, no directory other than the packages
\* directory is unlistable: all that is wrong is a missing optional directory
\* or an empty match
OnlyOptionalPartsMissing ==
    /\ \A f \in DOMAIN fs.decl : fs.decl[f].valid
    /\ fs.unlistable \subseteq {Place.packages}

\* the first three cases of C9, as the code and the specification agree on them
PackagesAndPatternsDegrade ==
    /\ OnlyOptionalPartsMissing => (~thrown /\ pc # "failed")
    /\ ~thrown =>
        /\ Place.packages \notin DOMAIN fs.dirs =>
               /\ Warned("packagesPath-not-found", PackagesPath)
               /\ \A p \in Range(viteEntrypoints) : ~IsUnder(p, Place.packages)
        /\ Place.packages \in fs.unlistable =>
               /\ Warned("packagesPath-unreadable", PackagesPath)
               /\ \A p \in Range(viteEntrypoints) : ~IsUnder(p, Place.packages)
        /\ \A bp \in ActivePatterns :
               IncludesChar(bp[2], "*") =>
                   /\ PatternDirectory(bp[1], bp[2]) \notin DOMAIN fs.dirs =>
                          /\ Warned("directory-not-found", bp[2])
                          /\ ContributionOf(bp[1], bp[2]) = {}
                   /\ (/\ PatternDirectory(bp[1], bp[2]) \in DOMAIN fs.dirs
                       /\ ContributionOf(bp[1], bp[2]) = {})
                          => Warned("no-files-found", bp[2])

RootBuildMissing == rootBuildEnabled /\ Place.rootBuild \notin DOMAIN fs.dirs

-----------------------------------------------------------------------------
(* A build: the bundler takes rollupOptions.input, builds, runs the          *)
(* generateBundle hooks of the plugins, writes its files (the manifest       *)
(* among them, build.manifest being true) and closes the bundle.             *)

\* a path as the manifest gives it: relative to the project root
Relative(p) == IF IsUnder(p, Cwd) THEN SubSeq(p, Len(Cwd) + 2, Len(p)) ELSE p

\* the key of input under which a source file was handed to the bundler (the
\* shortest, if there are several)
InputNameOf(input, src) ==
    CHOOSE k \in DOMAIN input :
        /\ Relative(input[k]) = src
        /\ \A l \in DOMAIN input : Relative(input[l]) = src => Len(k) <= Len(l)

\* the manifest entry of one source file; a style sheet may list itself among
\* its imports
RawEntry(name, src, selfImports) ==
    [file |-> Word.assets \o Slash \o name, src |-> src, name |-> name, isEntry |-> TRUE]
    @@ (IF selfImports /\ EndsWith(src, ExtScss)
        THEN [imports |-> <<DotSlash \o src>>] ELSE EmptyMap)

\* the manifest the bundler produces for rollupOptions.input: one entry per
\* source file, keyed by its path and named after its input key
RawManifest(input, selfImports) ==
    [src \in { Relative(input[k]) : k \in DOMAIN input } |->
        RawEntry(InputNameOf(input, src), src, selfImports)]

\* C4: for every file registered as an entrypoint, the name _cleanManifest
\* writes on the manifest entry of that file is the name under which
\* getViteConfig registered it
ManifestNamesMatchEntryNames ==
    pc = "configured" =>
        \A k \in DOMAIN entryPoints :
            CleanManifest(RawManifest(entryPoints, FALSE))[Relative(entryPoints[k])].name = k

\* the bundler starts a build with the configuration of getViteConfig; the
\* output directory is emptied, or kept with what the last build left in it
BuildStart ==
    /\ pc \in {"configured", "built"}
    /\ DOMAIN entryPoints # {}
    /\ bundle.builds < MaxBuilds
    /\ \E emptyOutDir \in BOOLEAN, selfImports \in BOOLEAN :
        /\ manifestFile' = IF emptyOutDir THEN NoManifestFile ELSE manifestFile
        /\ bundle' = [builds |-> bundle.builds + 1,
                      raw |-> RawManifest(entryPoints, selfImports),
                      written |-> FALSE]
    /\ pc' = "generateBundle"
    /\ UNCHANGED <<options, fs, validSitenames, rootBuildEnabled,
                   rootBuildIgnoreUnderscore, rootBuildPatterns, siteHints,
                   viteEntrypoints, entryPoints, console, thrown, arg, ret>>

\* a console.log line
Log(kind, about) == [kind |-> kind, about |-> about]

Saved(file, logs) == [file |-> file, logs |-> logs, threw |-> FALSE]

\* a faulty variant of SaveCleanedManifest: no existence check, so readFileSync throws
\* on the missing file
SaveCleanedManifestUnguarded ==
    IF ~manifestFile.present
    THEN [file |-> manifestFile, logs |-> <<>>, threw |-> TRUE]
    ELSE Saved([present |-> TRUE, content |-> CleanManifest(manifestFile.content)],
               Append(CleanManifestLog(manifestFile.content, DOMAIN manifestFile.content),
                      Log("cleaned-manifest-written", <<>>)))

\* _saveCleanedManifest: the file it leaves and the lines it prints
SaveCleanedManifest ==
    IF ~manifestFile.present
    THEN Saved(manifestFile, <<Warn("manifest-not-found", <<>>)>>)
    ELSE Saved([present |-> TRUE, content |-> CleanManifest(manifestFile.content)],
               Append(CleanManifestLog(manifestFile.content, DOMAIN manifestFile.content),
                      Log("cleaned-manifest-written", <<>>)))

\* what the hook leaves behind
AfterSave(saved) ==
    /\ manifestFile' = saved.file
    /\ console' = console \o saved.logs
    /\ thrown' = saved.threw
    /\ pc' = IF saved.threw THEN "failed" ELSE "writeBundle"

\* the generateBundle hook of postBuildManifestCleanupPlugin
GenerateBundle ==
    /\ pc = "generateBundle"
    /\ AfterSave(SaveCleanedManifest)
    /\ UNCHANGED <<options, fs, validSitenames, rootBuildEnabled,
                   rootBuildIgnoreUnderscore, rootBuildPatterns, siteHints,
                   viteEntrypoints, entryPoints, bundle, arg, ret>>

\* the bundler writes the bundle to the output directory, the manifest with it
WriteBundle ==
    /\ pc = "writeBundle"
    /\ manifestFile' = [present |-> TRUE, content |-> bundle.raw]
    /\ bundle' = [bundle EXCEPT !.written = TRUE]
    /\ pc' = "closeBundle"
    /\ UNCHANGED <<options, fs, validSitenames, rootBuildEnabled,
                   rootBuildIgnoreUnderscore, rootBuildPatterns, siteHints,
                   viteEntrypoints, entryPoints, console, thrown, arg, ret>>

\* the bundler closes the bundle: the build is complete (no plugin of
\* getViteConfig has a closeBundle hook)
CloseBundle ==
    /\ pc = "closeBundle"
    /\ pc' = "built"
    /\ UNCHANGED <<options, fs, manifestFile, validSitenames, rootBuildEnabled,
                   rootBuildIgnoreUnderscore, rootBuildPatterns, siteHints,
                   viteEntrypoints, entryPoints, console, thrown, bundle, arg, ret>>

\* the projects that are built: those with a root build folder only, and
\* those with two packages only
BuildFileSystems ==
    { f \in FileSystems :
        \/ Place.packages \notin DOMAIN f.dirs
        \/ /\ Place.otherPackage \in DOMAIN f.dirs
           /\ Place.rootBuild \notin DOMAIN f.dirs }

Init ==
    /\ pc = "new"
    /\ options \in { [sitenames |-> <<Word.mysite>>] }
    /\ fs \in BuildFileSystems
    /\ manifestFile = NoManifestFile
    /\ Unconstructed

Next ==
    \/ Construct
    \/ GetViteConfig
    \/ BuildStart
    \/ GenerateBundle
    \/ WriteBundle
    \/ CloseBundle

Spec == Init /\ [][Next]_vars

-----------------------------------------------------------------------------
(* Claims about the build. *)

\* C2: when a build ends, the manifest on disk is that build's manifest,
\* cleaned: the cleanup has run after the bundler wrote it
ManifestIsCleanedWhenBuildEnds ==
    pc = "built" =>
        manifestFile = [present |-> TRUE, content |-> CleanManifest(bundle.raw)]

\* C10: when the manifest file is absent as the cleanup runs, the cleanup
\* prints a warning, writes nothing, raises nothing, and the build goes on
AbsentManifestSkipsCleanup ==
    [][(pc = "generateBundle" /\ ~manifestFile.present) =>
          /\ manifestFile' = manifestFile
          /\ fs' = fs
          /\ thrown' = FALSE
          /\ console' = Append(console, Warn("manifest-not-found", <<>>))
          /\ pc' = "writeBundle"]_vars

\* the cleanup has just run without a manifest file, and the bundler is about
\* to write
CleanupSkipped ==
    /\ pc = "writeBundle"
    /\ ~manifestFile.present
    /\ console # <<>>
    /\ console[Len(console)] = Warn("manifest-not-found", <<>>)

\* a declaration file that is read and is no JSON list of strings
MalformedDeclarationRead ==
    /\ Place.packages \in DOMAIN fs.dirs
    /\ Place.packages \notin fs.unlistable
    /\ \E f \in DOMAIN fs.decl : ~fs.decl[f].valid

\* C11: a declaration file that cannot be parsed as a list of patterns is
\* fatal: the constructor leaves with the error, there is no entrypoint list
\* and no entryPoints object, whatever the other packages declare, and no
\* build is ever started
MalformedDeclarationIsFatal ==
    MalformedDeclarationRead =>
        /\ pc \in {"new", "failed"}
        /\ pc = "failed" => thrown
        /\ viteEntrypoints = <<>>
        /\ entryPoints = EmptyMap
        /\ bundle.builds = 0

\* package a declares ../Resources/*.js and has Resources/main.js, package b's
\* declaration is malformed: the constructor has failed
FailedOnSecondPackage ==
    /\ pc = "failed"
    /\ thrown
    /\ Place.otherDeclaration \in DOMAIN fs.decl
    /\ fs.decl[Place.declaration].valid
    /\ ~fs.decl[Place.otherDeclaration].valid
    /\ viteEntrypoints = <<>>

-----------------------------------------------------------------------------
(* The projects discovery is run on: the root build folder holds a Styles   *)
(* directory whose listing is drawn from two style files (one of them a     *)
(* partial), a script, a site folder MySite and a directory whose name ends *)
(* like a style file; MySite holds files and a deeper directory. The        *)
(* packages directory is absent or holds one package declaring              *)
(* ../Resources/*.js over a Resources directory with a partial in it. The   *)
(* options give the root build patterns explicitly.                         *)

\* what the Styles directory can list
StylesEntries ==
    { File(Word.a \o ExtScss), File(Word.partial \o ExtScss), File(Word.main \o ExtJs),
      Dir(Word.MySite), Dir(Word.main \o ExtScss) }

\* the listings of Styles: up to MaxListing different entries, in any order
DiscoveryListings ==
    { l \in UNION { [1..n -> StylesEntries] : n \in 0..MaxListing } :
        \A i, j \in 1..Len(l) : i # j => l[i] # l[j] }

\* the root build folder with the given listing of Styles
DiscoveryDirs(listing) ==
    (Cwd \o Slash \o Seg_Build :> <<Dir(Seg_Frontend)>>)
    @@ (Place.rootBuild :> <<Dir(Seg_Styles)>>)
    @@ (Place.styles :> listing)
    @@ (IF Dir(Word.MySite) \in Range(listing)
        THEN (Place.siteStyles :> <<File(Word.main \o ExtScss), Dir(Word.old),
                                    File(Word.partial \o ExtScss)>>)
             @@ (Place.oldStyles :> <<File(Word.a \o ExtScss)>>)
        ELSE EmptyMap)
    @@ (IF Dir(Word.main \o ExtScss) \in Range(listing)
        THEN (Place.namedLikeFile :> <<File(Word.a \o ExtScss)>>)
        ELSE EmptyMap)

\* the pattern of the one package's declaration file
ResourcesScripts == DotDot \o Slash \o Word.Resources \o Slash \o Star \o ExtJs

\* the packages part: absent, or one package with a partial among its scripts
DiscoveryPackages ==
    { [dirs |-> EmptyMap, unlistable |-> {}, decl |-> EmptyMap],
      [dirs |-> (Place.resources :> <<File(Word.main \o ExtJs), File(Word.shared)>>)
                  @@ PackagesDirs(TRUE),
       unlistable |-> {},
       decl |-> (Place.declaration :> [valid |-> TRUE, patterns |-> <<ResourcesScripts>>])] }

DiscoveryFileSystems ==
    { [dirs |-> (Cwd :> CwdListing(DiscoveryDirs(l) @@ p.dirs)) @@ DiscoveryDirs(l) @@ p.dirs,
       unlistable |-> p.unlistable,
       decl |-> p.decl] :
        l \in DiscoveryListings, p \in DiscoveryPackages }

\* the patterns of rootBuild.patterns: files in Styles, files one level
\* below Styles, one file named without a wildcard
Pattern ==
    [ direct |-> Seg_Styles \o Slash \o Star \o ExtScss,
      below |-> Seg_Styles \o Slash \o Star \o Slash \o Star \o ExtScss,
      single |-> Seg_Styles \o Slash \o Word.a \o ExtScss ]

DiscoveryOptions ==
    { s @@ [rootBuild |-> [enabled |-> e, patterns |-> p] @@ u] :
        s \in OptionalField("sitenames",
                            { <<Word.mysite>>, <<ToLowerCase(Seg_Styles), Word.mysite>> }),
        e \in BOOLEAN,
        u \in OptionalField("ignoreUnderscore", { TRUE }),
        p \in { <<Pattern.direct>>, <<Pattern.below>>, <<Pattern.single>>,
                <<Pattern.direct, Pattern.single>> } }

InitDiscovery ==
    /\ pc = "new"
    /\ options \in DiscoveryOptions
    /\ fs \in DiscoveryFileSystems
    /\ manifestFile = NoManifestFile
    /\ Unconstructed

SpecDiscovery == InitDiscovery /\ [][Construct]_vars

-----------------------------------------------------------------------------
(* Claims about what the resolver discovers. *)

\* the options say nothing about whether root-folder discovery is on
EnabledNotGiven ==
    \/ "rootBuild" \notin DOMAIN options
    \/ "enabled" \notin DOMAIN options.rootBuild

\* C12: when the rootBuild option, or its enabled field, is not given,
\* root-folder discovery is inactive and no file of the root build folder is
\* in the entrypoint list, whatever the folder holds
RootBuildOffByDefault ==
    (pc \in {"constructed", "configured"} /\ EnabledNotGiven) =>
        /\ ~rootBuildEnabled
        /\ \A p \in Range(viteEntrypoints) : ~IsUnder(p, Place.rootBuild)

\* the position in the resolved list of the first path deriving the name
FirstDeriving(entryName) ==
    CHOOSE i \in 1..Len(viteEntrypoints) :
        /\ GenerateEntryName(viteEntrypoints[i]) = entryName
        /\ \A j \in 1..(i - 1) : GenerateEntryName(viteEntrypoints[j]) # entryName

\* C13: the resolved list holds the files of the root build folder before the
\* files the packages declare, and once the map is built every logical name
\* derived from the list is a key whose path is the first path of the list
\* deriving that name
FirstPathHoldsBareName ==
    pc = "configured" =>
        /\ \A i, j \in 1..Len(viteEntrypoints) :
               (i < j /\ IsUnder(viteEntrypoints[j], Place.rootBuild))
                   => IsUnder(viteEntrypoints[i], Place.rootBuild)
        /\ \A i \in 1..Len(viteEntrypoints) :
               /\ GenerateEntryName(viteEntrypoints[i]) \in DOMAIN entryPoints
               /\ entryPoints[GenerateEntryName(viteEntrypoints[i])]
                      = Resolve(viteEntrypoints[FirstDeriving(
                                    GenerateEntryName(viteEntrypoints[i]))])

\* the files of the resolved list that root-folder discovery found
RootFiles == { f \in Range(viteEntrypoints) : IsUnder(f, Place.rootBuild) }

\* the two strings are equal up to the case of their letters
EqualIgnoringCase(a, b) ==
    /\ Len(a) = Len(b)
    /\ \A k \in 1..Len(a) : ToLowerChar(a[k]) = ToLowerChar(b[k])

\* the positions in the configured list of the sites that equal, up to case,
\* some segment of the full path f
SitesNamedIn(f) ==
    { i \in 1..Len(validSitenames) :
        \E k \in 1..Len(SplitOn(f, "/")) :
            EqualIgnoringCase(validSitenames[i], SplitOn(f, "/")[k]) }

\* C14: after root-folder discovery the hint of a discovered file is the first
\* configured site equal, up to case, to a segment of the file's path, as the
\* site is written in the options; a file with no such segment has no hint,
\* nothing else has a hint, and this is so for a file matched by two patterns
SiteHintIsFirstMatchingSite ==
    pc = "constructed" =>
        /\ DOMAIN siteHints \subseteq RootFiles
        /\ \A f \in RootFiles :
               IF SitesNamedIn(f) = {} THEN f \notin DOMAIN siteHints
               ELSE /\ f \in DOMAIN siteHints
                    /\ \E i \in SitesNamedIn(f) :
                           /\ \A j \in SitesNamedIn(f) : i <= j
                           /\ siteHints[f] = validSitenames[i]

\* a file of Styles found twice, by two patterns, with the one hint "styles",
\* the site as it is written in the options
HintedOnceThoughMatchedTwice ==
    /\ pc = "constructed"
    /\ validSitenames = <<ToLowerCase(Seg_Styles), Word.mysite>>
    /\ \E i, j \in 1..Len(viteEntrypoints) :
           /\ i < j
           /\ viteEntrypoints[i] = viteEntrypoints[j]
           /\ Cardinality(SitesNamedIn(viteEntrypoints[i])) = 1
           /\ siteHints[viteEntrypoints[i]] = ToLowerCase(Seg_Styles)

\* the part of the resolved list found in the root build folder, and the rest
RootPart ==
    LET InRoot(f) == IsUnder(f, Place.rootBuild)
    IN  SelectSeq(viteEntrypoints, InRoot)
PackagePart ==
    LET NotInRoot(f) == ~IsUnder(f, Place.rootBuild)
    IN  SelectSeq(viteEntrypoints, NotInRoot)

\* the regular files listed in dir whose name ends with the ending, in
\* listing order, by their paths; without the names starting with an
\* underscore when dropUnderscore is set
ChildrenEndingIn(dir, ending, dropUnderscore) ==
    LET Wanted(e) ==
            /\ e.kind = "file"
            /\ Len(e.name) >= Len(ending)
            /\ SubSeq(e.name, Len(e.name) - Len(ending) + 1, Len(e.name)) = ending
            /\ dropUnderscore => e.name[1] # "_"
    IN  [i \in 1..Len(SelectSeq(fs.dirs[dir], Wanted)) |->
            dir \o Slash \o SelectSeq(fs.dirs[dir], Wanted)[i].name]

\* C15: a pattern Dir/*.ext over an existing Dir expands to exactly the
\* regular files listed in Dir whose name matches, in listing order, without
\* the underscore names when the policy is active (Styles/*.scss over a.scss
\* and _b.scss with the policy on gives Styles/a.scss alone); a pattern
\* without a wildcard expands to its one resolved path, whether or not the
\* file exists
DirectChildrenAreExpanded ==
    (pc = "constructed" /\ rootBuildEnabled) =>
        /\ rootBuildPatterns = <<Pattern.direct>> =>
               RootPart = ChildrenEndingIn(Place.styles, ExtScss, rootBuildIgnoreUnderscore)
        /\ rootBuildPatterns = <<Pattern.single>> =>
               RootPart = <<Place.styles \o Slash \o Word.a \o ExtScss>>
        /\ rootBuildPatterns = <<Pattern.direct, Pattern.single>> =>
               RootPart = ChildrenEndingIn(Place.styles, ExtScss, rootBuildIgnoreUnderscore)
                            \o <<Place.styles \o Slash \o Word.a \o ExtScss>>
        /\ Place.resources \in DOMAIN fs.dirs =>
               \E policy \in BOOLEAN :
                   PackagePart = ChildrenEndingIn(Place.resources, ExtJs, policy)
        /\ ( /\ rootBuildPatterns = <<Pattern.direct>>
             /\ rootBuildIgnoreUnderscore
             /\ fs.dirs[Place.styles]
                  = <<File(Word.a \o ExtScss), File(Word.partial \o ExtScss)>> )
           => RootPart = <<Place.styles \o Slash \o Word.a \o ExtScss>>

\* Styles/*.scss over a.scss and _b.scss with the policy on gave a.scss alone
PartialDroppedFromStyles ==
    /\ pc = "constructed"
    /\ rootBuildIgnoreUnderscore
    /\ rootBuildPatterns = <<Pattern.direct>>
    /\ fs.dirs[Place.styles] = <<File(Word.a \o ExtScss), File(Word.partial \o ExtScss)>>
    /\ viteEntrypoints = <<Place.styles \o Slash \o Word.a \o ExtScss>>

RECURSIVE FilesOneLevelBelow(_, _, _, _)
\* the regular files with the ending listed in those of the entries of dir
\* that are directories, directory after directory in the order of entries
FilesOneLevelBelow(dir, entries, ending, dropUnderscore) ==
    IF entries = <<>> THEN <<>>
    ELSE (IF Head(entries).kind = "dir"
          THEN ChildrenEndingIn(dir \o Slash \o Head(entries).name, ending, dropUnderscore)
          ELSE <<>>)
         \o FilesOneLevelBelow(dir, Tail(entries), ending, dropUnderscore)

\* how many warnings of the kind about the pattern were printed
WarningsAbout(kind, about) ==
    Cardinality({ i \in 1..Len(console) : console[i] = Warn(kind, about) })

\* C16: a pattern Dir/*/*.ext over an existing Dir expands to exactly the
\* matching regular files of the immediate subdirectories of Dir, subdirectory
\* after subdirectory in listing order: no file listed in Dir itself, no file
\* two or more levels below it; one warning is printed when nothing is found,
\* none otherwise
SubdirectoryChildrenAreExpanded ==
    (pc = "constructed" /\ rootBuildEnabled /\ rootBuildPatterns = <<Pattern.below>>) =>
        /\ RootPart = FilesOneLevelBelow(Place.styles, fs.dirs[Place.styles], ExtScss,
                                         rootBuildIgnoreUnderscore)
        /\ \A f \in Range(RootPart) :
               /\ IsUnder(f, Place.styles)
               /\ Len(SplitOn(f, "/")) = Len(SplitOn(Place.styles, "/")) + 2
        /\ WarningsAbout("no-files-found", Pattern.below)
               = IF RootPart = <<>> THEN 1 ELSE 0

\* Styles lists a style file and the site folder, which holds a style file
\* and a directory with another: only the site folder's own file was found
OnlySubdirectoryFilesFound ==
    /\ pc = "constructed"
    /\ rootBuildPatterns = <<Pattern.below>>
    /\ File(Word.a \o ExtScss) \in Range(fs.dirs[Place.styles])
    /\ Dir(Word.MySite) \in Range(fs.dirs[Place.styles])
    /\ Place.oldStyles \in DOMAIN fs.dirs
    /\ rootBuildIgnoreUnderscore
    /\ RootPart = <<Place.siteStyles \o Slash \o Word.main \o ExtScss>>

\* C18: the entrypoints expanded from the declaration files of the packages
\* do not depend on rootBuild.ignoreUnderscore: after the constructor they
\* are what the declarations expand to with the toggle the other way round,
\* whether root-folder discovery is enabled or not
PackageEntriesIgnoreTheToggle ==
    pc = "constructed" =>
        PackagePart = GeneratePackageEntrypoints(~rootBuildIgnoreUnderscore).files

=============================================================================
